---- MODULE Spec2Model ----
(***************************************************************************)
(* The crawl scripts of the repository (main.py, main1.py, main2.py,       *)
(* llm1.py) as a state machine: each script configures a run, opens the    *)
(* crawler, awaits one crawl and post-processes result.extracted_content   *)
(* with json.loads / json.dumps.  The crawl itself (browser, selector      *)
(* evaluation, LLM) is an external collaborator: what it returns or raises *)
(* is an input chosen from bounded sets.                                   *)
(*                                                                         *)
(* Text is a sequence of one-character strings.  The JSON operators are    *)
(* exact on texts over JsonChars.                                          *)
(***************************************************************************)
EXTENDS Integers, Sequences, FiniteSets, TLC

\* ------------------------------------------------------------------ bounds

\* Longest arbitrary payload the crawl hands back.
MaxLen == 3
\* Most records in a ResultSet that is serialized and parsed back.
MaxRecords == 2

\* json.dumps(extracted_data, indent=2)
IndentWidth == 2

\* ------------------------------------------------------------- JSON values

\* A Python value json.loads can return, in one record shape:
\*   t = "null" | "true" | "false" | "str" | "list" | "dict"
\*   s = the characters of a str; items = the elements of a list or the
\*   values of a dict; keys = the keys of a dict (insertion order).
JNull == [t |-> "null", s |-> <<>>, items |-> <<>>, keys |-> <<>>]
JTrue == [t |-> "true", s |-> <<>>, items |-> <<>>, keys |-> <<>>]
JFalse == [t |-> "false", s |-> <<>>, items |-> <<>>, keys |-> <<>>]
JStr(chars) == [t |-> "str", s |-> chars, items |-> <<>>, keys |-> <<>>]
JList(xs) == [t |-> "list", s |-> <<>>, items |-> xs, keys |-> <<>>]
JDict(ks, vs) == [t |-> "dict", s |-> <<>>, items |-> vs, keys |-> ks]

\* The characters the JSON operators are defined on.
JsonChars ==
    {"[", "]", "{", "}", ",", ":", "\"", "\\", " ", "\n", "\r", "\t", "\f", "/",
     "a", "e", "f", "l", "n", "r", "s", "t", "u", "x"}

\* json.decoder.WHITESPACE
WS == {" ", "\t", "\n", "\r"}
\* Characters below 0x20: refused inside a string (strict mode).
ControlChars == {"\n", "\r", "\t", "\f"}
\* The hexadecimal digits among JsonChars.
HexDigits == {"a", "e", "f"}
\* The character a \uXXXX escape denotes, named by its escape.
UChar(q) == "\\u" \o q[1] \o q[2] \o q[3] \o q[4]
IsUChar(c) == \E q \in [1..4 -> HexDigits] : UChar(q) = c
UHex(c) == CHOOSE q \in [1..4 -> HexDigits] : UChar(q) = c
\* json.decoder.BACKSLASH, on JsonChars (b, the backspace, is not among them).
BACKSLASH ==
    ("\"" :> "\"") @@ ("\\" :> "\\") @@ ("/" :> "/") @@ ("f" :> "\f")
    @@ ("n" :> "\n") @@ ("r" :> "\r") @@ ("t" :> "\t")

\* s[i:i+1]
At(s, i) == IF i >= 1 /\ i <= Len(s) THEN s[i] ELSE ""
\* s[i:i+len(word)] == word
Matches(s, i, word) ==
    i + Len(word) - 1 <= Len(s) /\ SubSeq(s, i, i + Len(word) - 1) = word

RECURSIVE SkipWs(_, _)
\* WHITESPACE.match(s, i).end()
SkipWs(s, i) == IF i <= Len(s) /\ s[i] \in WS THEN SkipWs(s, i + 1) ELSE i

Fail(i) == [ok |-> FALSE, val |-> JNull, next |-> i]
Ok(v, i) == [ok |-> TRUE, val |-> v, next |-> i]

RECURSIVE scanstring(_, _, _)
\* json.decoder.scanstring from the character after the opening quote.
scanstring(s, i, acc) ==
    IF i > Len(s) THEN Fail(i)
    ELSE IF s[i] = "\"" THEN Ok(JStr(acc), i + 1)
    ELSE IF s[i] \in ControlChars THEN Fail(i)
    ELSE IF s[i] # "\\" THEN scanstring(s, i + 1, Append(acc, s[i]))
    ELSE IF i + 1 > Len(s) THEN Fail(i)
    ELSE IF s[i + 1] = "u" THEN
        IF i + 5 <= Len(s) /\ \A k \in 2..5 : s[i + k] \in HexDigits
        THEN scanstring(s, i + 6, Append(acc, UChar(SubSeq(s, i + 2, i + 5))))
        ELSE Fail(i)
    ELSE IF s[i + 1] \in DOMAIN BACKSLASH
    THEN scanstring(s, i + 2, Append(acc, BACKSLASH[s[i + 1]]))
    ELSE Fail(i)

\* dict(pairs): a repeated key keeps its first place and takes the last value.
DictSet(d, k, v) ==
    IF \E n \in 1..Len(d.keys) : d.keys[n] = k
    THEN LET n == CHOOSE m \in 1..Len(d.keys) : d.keys[m] = k
         IN  JDict(d.keys, [d.items EXCEPT ![n] = v])
    ELSE JDict(Append(d.keys, k), Append(d.items, v))

RECURSIVE scan_once(_, _)
RECURSIVE ArrayItems(_, _, _)
RECURSIVE ObjectPairs(_, _, _)

\* json.decoder.JSONArray from the character after "[".
JSONArray(s, i0) ==
    LET i == SkipWs(s, i0)
    IN  IF At(s, i) = "]" THEN Ok(JList(<<>>), i + 1) ELSE ArrayItems(s, i, <<>>)

ArrayItems(s, i, acc) ==
    LET r == scan_once(s, i)
        j == SkipWs(s, r.next)
    IN  IF ~r.ok THEN Fail(i)
        ELSE IF At(s, j) = "]" THEN Ok(JList(Append(acc, r.val)), j + 1)
        ELSE IF At(s, j) = "," THEN ArrayItems(s, SkipWs(s, j + 1), Append(acc, r.val))
        ELSE Fail(j)

\* json.decoder.JSONObject from the character after "{".
JSONObject(s, i0) ==
    LET i == SkipWs(s, i0)
    IN  IF At(s, i) = "}" THEN Ok(JDict(<<>>, <<>>), i + 1)
        ELSE IF At(s, i) # "\"" THEN Fail(i)
        ELSE ObjectPairs(s, i + 1, JDict(<<>>, <<>>))

\* One "key": value pair and what follows it; i is the character after the
\* key's opening quote.
ObjectPairs(s, i, d) ==
    LET k == scanstring(s, i, <<>>)
        c == SkipWs(s, k.next)
        v == scan_once(s, SkipWs(s, c + 1))
        j == SkipWs(s, v.next)
        q == SkipWs(s, j + 1)
    IN  IF ~k.ok THEN Fail(i)
        ELSE IF At(s, c) # ":" THEN Fail(c)
        ELSE IF ~v.ok THEN Fail(c)
        ELSE IF At(s, j) = "}" THEN Ok(DictSet(d, k.val.s, v.val), j + 1)
        ELSE IF At(s, j) # "," THEN Fail(j)
        ELSE IF At(s, q) # "\"" THEN Fail(q)
        ELSE ObjectPairs(s, q + 1, DictSet(d, k.val.s, v.val))

\* json.scanner.py_make_scanner._scan_once, on JsonChars (no digit, no sign,
\* no N or I among them, so no number starts).
scan_once(s, i) ==
    IF i > Len(s) THEN Fail(i)
    ELSE IF s[i] = "\"" THEN scanstring(s, i + 1, <<>>)
    ELSE IF s[i] = "{" THEN JSONObject(s, i + 1)
    ELSE IF s[i] = "[" THEN JSONArray(s, i + 1)
    ELSE IF Matches(s, i, <<"n", "u", "l", "l">>) THEN Ok(JNull, i + 4)
    ELSE IF Matches(s, i, <<"t", "r", "u", "e">>) THEN Ok(JTrue, i + 4)
    ELSE IF Matches(s, i, <<"f", "a", "l", "s", "e">>) THEN Ok(JFalse, i + 5)
    ELSE Fail(i)

\* json.loads(s): [ok |-> FALSE] stands for raising json.JSONDecodeError.
json_loads(s) ==
    LET r == scan_once(s, SkipWs(s, 1))
    IN  IF r.ok /\ SkipWs(s, r.next) = Len(s) + 1
        THEN [ok |-> TRUE, val |-> r.val]
        ELSE [ok |-> FALSE, val |-> JNull]

\* An encoder that escapes the control characters and leaves the quote and
\* the backslash as they are.
escape_char_unquoted(c) ==
    IF c = "\n" THEN <<"\\", "n">>
    ELSE IF c = "\r" THEN <<"\\", "r">>
    ELSE IF c = "\t" THEN <<"\\", "t">>
    ELSE IF c = "\f" THEN <<"\\", "f">>
    ELSE <<c>>

\* json.encoder.ESCAPE_ASCII / ESCAPE_DCT (ensure_ascii=True): what one
\* character of a str becomes between the quotes.
escape_char(c) ==
    IF c = "\"" THEN <<"\\", "\"">>
    ELSE IF c = "\\" THEN <<"\\", "\\">>
    ELSE IF c = "\n" THEN <<"\\", "n">>
    ELSE IF c = "\r" THEN <<"\\", "r">>
    ELSE IF c = "\t" THEN <<"\\", "t">>
    ELSE IF c = "\f" THEN <<"\\", "f">>
    ELSE IF IsUChar(c) THEN <<"\\", "u">> \o UHex(c)
    ELSE <<c>>

RECURSIVE escape_chars(_)
escape_chars(chars) ==
    IF chars = <<>> THEN <<>>
    ELSE escape_char(Head(chars)) \o escape_chars(Tail(chars))

\* json.encoder.py_encode_basestring_ascii
encode_basestring_ascii(chars) == <<"\"">> \o escape_chars(chars) \o <<"\"">>

\* '\n' + _indent * _current_indent_level
newline_indent(level) == <<"\n">> \o [k \in 1..(IndentWidth * level) |-> " "]

RECURSIVE iterencode(_, _)
RECURSIVE iterencode_list(_, _, _)
RECURSIVE iterencode_dict(_, _, _)

\* json.encoder._make_iterencode._iterencode_list: the items from the n-th on,
\* each after the item separator "," and the new line.
iterencode_list(v, n, level) ==
    IF n > Len(v.items) THEN <<>>
    ELSE (IF n = 1 THEN <<>> ELSE <<",">>) \o newline_indent(level)
         \o iterencode(v.items[n], level)
         \o iterencode_list(v, n + 1, level)

\* json.encoder._make_iterencode._iterencode_dict: key, the key separator
\* ": ", value.
iterencode_dict(v, n, level) ==
    IF n > Len(v.keys) THEN <<>>
    ELSE (IF n = 1 THEN <<>> ELSE <<",">>) \o newline_indent(level)
         \o encode_basestring_ascii(v.keys[n]) \o <<":", " ">>
         \o iterencode(v.items[n], level)
         \o iterencode_dict(v, n + 1, level)

\* json.encoder._make_iterencode._iterencode at an indent level.
iterencode(v, level) ==
    IF v.t = "null" THEN <<"n", "u", "l", "l">>
    ELSE IF v.t = "true" THEN <<"t", "r", "u", "e">>
    ELSE IF v.t = "false" THEN <<"f", "a", "l", "s", "e">>
    ELSE IF v.t = "str" THEN encode_basestring_ascii(v.s)
    ELSE IF v.t = "list" THEN
        IF v.items = <<>> THEN <<"[", "]">>
        ELSE <<"[">> \o iterencode_list(v, 1, level + 1)
             \o newline_indent(level) \o <<"]">>
    ELSE
        IF v.keys = <<>> THEN <<"{", "}">>
        ELSE <<"{">> \o iterencode_dict(v, 1, level + 1)
             \o newline_indent(level) \o <<"}">>

\* json.dumps(v, indent=2)
json_dumps(v) == iterencode(v, 0)

\* ------------------------------------------------------------ the schemas

\* The field names of the schemas, as the str keys json.loads returns.
K_asin == <<"a", "s", "i", "n">>
K_title == <<"t", "i", "t", "l", "e">>
K_url == <<"u", "r", "l">>
K_image == <<"i", "m", "a", "g", "e">>
K_rating == <<"r", "a", "t", "i", "n", "g">>
K_reviews_count == <<"r", "e", "v", "i", "e", "w", "s", "_", "c", "o", "u", "n", "t">>
K_price == <<"p", "r", "i", "c", "e">>
K_original_price ==
    <<"o", "r", "i", "g", "i", "n", "a", "l", "_", "p", "r", "i", "c", "e">>
K_sponsored == <<"s", "p", "o", "n", "s", "o", "r", "e", "d">>
K_delivery_info ==
    <<"d", "e", "l", "i", "v", "e", "r", "y", "_", "i", "n", "f", "o">>

\* One entry of a schema's "fields": keys lists the keys the dict literal
\* holds; selector and attribute are "" where the key is absent or empty.
Field(name, keys, selector, type, attribute) ==
    [name |-> name, keys |-> keys, selector |-> selector, type |-> type,
     attribute |-> attribute]

\* The fields main.py, main1.py and main2.py list after "asin"; only the
\* "rating" entry differs.
CommonFields(rating) ==
    << Field(K_title, {"name", "selector", "type", "attribute"},
             "h2[aria-label]", "attribute", "aria-label"),
       Field(K_url, {"name", "selector", "type", "attribute"},
             "h2 a", "attribute", "href"),
       Field(K_image, {"name", "selector", "type", "attribute"},
             ".s-image", "attribute", "src"),
       rating,
       Field(K_reviews_count, {"name", "selector", "type"},
             "[data-csa-c-func-deps='aui-da-a-popover'] ~ span span", "text", ""),
       Field(K_price, {"name", "selector", "type"}, ".a-price-whole", "text", ""),
       Field(K_original_price, {"name", "selector", "type"},
             "span[aria-hidden='true']", "text", ""),
       Field(K_sponsored, {"name", "selector", "type"},
             ".puis-sponsored-label-text", "exists", ""),
       Field(K_delivery_info, {"name", "selector", "type", "multiple"},
             "[data-cy='delivery-recipe'] .a-color-base", "text", "") >>

\* main.py's schema: "asin" has no "attribute" key, "rating" no "selector".
SchemaMain ==
    [baseSelector |-> "[data-component-type='s-search-result']",
     fields |->
        << Field(K_asin, {"name", "selector", "type"}, "", "attribute", "") >>
        \o CommonFields(Field(K_rating, {"name", "type"}, "", "text", ""))]

\* The schema of main1.py and of main2.py.
SchemaDynamic ==
    [baseSelector |-> "[data-component-type='s-search-result']",
     fields |->
        << Field(K_asin, {"name", "selector", "type", "attribute"},
                 "", "attribute", "data-asin") >>
        \o CommonFields(Field(K_rating, {"name", "selector", "type"},
                              ".a-icon-star-small .a-icon-alt", "text", ""))]

\* llm1.py extracts with an LLM: no CSS schema.
NoSchema == [baseSelector |-> "", fields |-> <<>>]

CssScripts == {"main", "main1", "main2"}
Scripts == CssScripts \cup {"llm1"}

SchemaOf(sc) ==
    IF sc = "main" THEN SchemaMain
    ELSE IF sc \in {"main1", "main2"} THEN SchemaDynamic
    ELSE NoSchema

\* ------------------------------------------------- what the crawl returns

\* result.extracted_content: None, or a str.
NoContent == [none |-> TRUE, chars |-> <<>>]
Content(chars) == [none |-> FALSE, chars |-> chars]
\* What crawler.arun returned: None, or a result with its extracted_content.
NoResult == [none |-> TRUE, content |-> NoContent]
Result(content) == [none |-> FALSE, content |-> content]

\* The characters of the arbitrary payloads.
PayloadChars == {"[", "]", "{", "}", "\"", "a", " "}
Texts(chars, n) == UNION {[1..k -> chars] : k \in 0..n}

\* A value a key of a sample record takes, or no such key.
Absent == [has |-> FALSE, val |-> JNull]
Present(v) == [has |-> TRUE, val |-> v]
WithKey(d, k, opt) ==
    IF opt.has THEN JDict(Append(d.keys, k), Append(d.items, opt.val)) ELSE d

\* Records as an extraction returns them: a str, a null or no key for "asin",
\* a boolean for "sponsored", a list of str for "delivery_info".
SampleRecords ==
    { WithKey(WithKey(WithKey(JDict(<<>>, <<>>), K_asin, a), K_sponsored, s),
              K_delivery_info, d) :
        a \in {Absent, Present(JNull), Present(JStr(<<"a", "\"">>))},
        s \in {Present(JTrue), Present(JFalse)},
        d \in {Present(JList(<<>>)),
               Present(JList(<<JStr(<<"a">>), JStr(<<"\n", "\\">>)>>))} }

SampleResultSets == {JList(rs) : rs \in Texts(SampleRecords, MaxRecords)}

RECURSIVE WireChars(_)
RECURSIVE WireItems(_, _)
RECURSIVE Wire(_)
\* A ResultSet as the crawl hands it over: JSON text without white space,
\* written on the crawl's side and so by none of the scripts' own calls.
WireChars(chars) ==
    IF chars = <<>> THEN <<>>
    ELSE (IF Head(chars) = "\"" THEN <<"\\", "\"">>
          ELSE IF Head(chars) = "\\" THEN <<"\\", "\\">>
          ELSE IF Head(chars) = "\n" THEN <<"\\", "n">>
          ELSE <<Head(chars)>>) \o WireChars(Tail(chars))
WireItems(v, n) ==
    IF n > Len(v.items) THEN <<>>
    ELSE (IF n = 1 THEN <<>> ELSE <<",">>)
         \o (IF v.t = "dict"
             THEN <<"\"">> \o WireChars(v.keys[n]) \o <<"\"", ":">>
             ELSE <<>>)
         \o Wire(v.items[n]) \o WireItems(v, n + 1)
Wire(v) ==
    IF v.t = "null" THEN <<"n", "u", "l", "l">>
    ELSE IF v.t = "true" THEN <<"t", "r", "u", "e">>
    ELSE IF v.t = "false" THEN <<"f", "a", "l", "s", "e">>
    ELSE IF v.t = "str" THEN <<"\"">> \o WireChars(v.s) \o <<"\"">>
    ELSE IF v.t = "list" THEN <<"[">> \o WireItems(v, 1) \o <<"]">>
    ELSE <<"{">> \o WireItems(v, 1) \o <<"}">>

\* The payloads a crawl hands back: every short text, and the sample
\* ResultSets as JSON text.
Payloads ==
    Texts(PayloadChars, MaxLen) \cup {Wire(rs) : rs \in SampleResultSets}

\* ------------------------------------------------------- post-processing

\* bool(v)
Truthy(v) ==
    \/ v.t = "true"
    \/ v.t = "str" /\ v.s # <<>>
    \/ v.t = "list" /\ v.items # <<>>
    \/ v.t = "dict" /\ v.keys # <<>>

\* product.get(k)
DictGet(d, k) ==
    IF \E n \in 1..Len(d.keys) : d.keys[n] = k
    THEN d.items[CHOOSE n \in 1..Len(d.keys) : d.keys[n] = k]
    ELSE JNull

\* iter(v): the elements a for loop or str.join sees; a null or a boolean is
\* not iterable.
Iterable(v) == v.t \in {"list", "dict", "str"}
Elements(v) ==
    IF v.t = "list" THEN v.items
    ELSE IF v.t = "dict" THEN [n \in 1..Len(v.keys) |-> JStr(v.keys[n])]
    ELSE [n \in 1..Len(v.s) |-> JStr(<<v.s[n]>>)]

RECURSIVE JoinFrom(_, _)
JoinFrom(parts, n) ==
    IF n > Len(parts) THEN <<>>
    ELSE (IF n = 1 THEN <<>> ELSE <<" ">>) \o parts[n].s \o JoinFrom(parts, n + 1)

\* ' '.join(v): TypeError unless v is an iterable of str.
str_join(v) ==
    IF Iterable(v) /\ \A n \in 1..Len(Elements(v)) : Elements(v)[n].t = "str"
    THEN [ok |-> TRUE, text |-> JoinFrom(Elements(v), 1)]
    ELSE [ok |-> FALSE, text |-> <<>>]

\* What the loop body printed for one product: the values shown on the ASIN,
\* Title, Price, Original Price, Rating and Reviews lines, the Sponsored line,
\* the Delivery line where there is one, and whether the closing rule of
\* dashes was reached.
Block(shown, sponsored, hasDelivery, delivery, ended) ==
    [shown |-> shown, sponsored |-> sponsored, hasDelivery |-> hasDelivery,
     delivery |-> delivery, ended |-> ended]

\* The body of "for product in products": product.get raises AttributeError
\* on anything but a dict, the join TypeError on a truthy delivery_info that
\* is no iterable of str.
PrintProduct(product) ==
    IF product.t # "dict"
    THEN [exc |-> "AttributeError", block |-> Block(<<>>, "", FALSE, <<>>, FALSE)]
    ELSE LET shown == << DictGet(product, K_asin), DictGet(product, K_title),
                         DictGet(product, K_price),
                         DictGet(product, K_original_price),
                         DictGet(product, K_rating),
                         DictGet(product, K_reviews_count) >>
             sponsored == IF Truthy(DictGet(product, K_sponsored)) THEN "Yes" ELSE "No"
             info == DictGet(product, K_delivery_info)
         IN  IF ~Truthy(info)
             THEN [exc |-> "none", block |-> Block(shown, sponsored, FALSE, <<>>, TRUE)]
             ELSE IF str_join(info).ok
             THEN [exc |-> "none",
                   block |-> Block(shown, sponsored, TRUE, str_join(info).text, TRUE)]
             ELSE [exc |-> "TypeError",
                   block |-> Block(shown, sponsored, FALSE, <<>>, FALSE)]

RECURSIVE PrintLoop(_, _, _)
\* The for loop from the n-th product on; it ends at the first exception.
PrintLoop(products, n, acc) ==
    IF n > Len(products) THEN [exc |-> "none", printed |-> acc]
    ELSE LET r == PrintProduct(products[n])
         IN  IF r.exc # "none" THEN [exc |-> r.exc, printed |-> Append(acc, r.block)]
             ELSE PrintLoop(products, n + 1, Append(acc, r.block))

\* One output.write of llm1.py: which write it is, and the text it adds
\* where that is not a fixed string.
Segment(kind, text) == [kind |-> kind, text |-> text]


\* ------------------------------------------------------------------ state

\* config.py and markdown.py: one crawl, then the markdown is printed.
PlainScripts == {"config", "markdown"}
\* The scripts that search on the page before the extraction: main1.py with
\* the after_goto hook, main2.py with injected JavaScript and wait_for.
DynamicScripts == {"main1", "main2"}
AllScripts == Scripts \cup PlainScripts

\* after_goto's awaits, in the order of the code.
HookSteps == <<"wait_box", "fill", "wait_button", "click", "wait_results">>

\* One step of a search interaction and how it ended.
Attempt(step, ok) == [step |-> step, ok |-> ok]

VARIABLES
    script,     \* the script that runs
    pc,         \* where it is
    crawler,    \* "none" | "open" | "closed": the AsyncWebCrawler
    hook,       \* the hook registered on the crawler strategy, or "none"
    crawls,     \* calls of crawler.arun so far
    result,     \* what crawler.arun returned
    data,       \* json.loads of the payload, once parsed: [set, val]
    printed,    \* main*.py: the product blocks printed
    output,     \* llm1.py: the writes to the io.StringIO
    exc,        \* the exception on its way out, or "none"
    attempts,   \* main1.py, main2.py: the search steps tried, with their ends
    hookRet,    \* main1.py: what after_goto returned, "none" before it did
    markdown,   \* config.py, markdown.py: result.markdown: "unset", "None", "text"
    stdout      \* the messages printed by the hook and by the plain scripts

vars ==
    <<script, pc, crawler, hook, crawls, result, data, printed, output, exc,
      attempts, hookRet, markdown, stdout>>

NoData == [set |-> FALSE, val |-> JNull]

Init ==
    /\ script \in AllScripts
    /\ pc = "start"
    /\ crawler = "none"
    /\ hook = "none"
    /\ crawls = 0
    /\ result = NoResult
    /\ data = NoData
    /\ printed = <<>>
    /\ output = <<>>
    /\ exc = "none"
    /\ attempts = <<>>
    /\ hookRet = "none"
    /\ markdown = "unset"
    /\ stdout = <<>>

\* The search was submitted: the button was clicked (main1.py), or the
\* injected script ran to its click (main2.py).
Submitted ==
    \E n \in 1..Len(attempts) :
        attempts[n].ok /\ attempts[n].step \in {"click", "js_search"}
\* An element matching [data-component-type="s-search-result"] was seen.
ResultsLoaded ==
    \E n \in 1..Len(attempts) :
        attempts[n].ok /\ attempts[n].step \in {"wait_results", "wait_for"}

\* main*.py: BrowserConfig and CrawlerRunConfig with the
\* JsonCssExtractionStrategy built from the schema literal.  Nothing in the
\* script looks at the schema: the literal goes to the strategy as written.
ConfigureCss ==
    /\ pc = "start"
    /\ script \in CssScripts
    /\ pc' = "configured"
    /\ UNCHANGED <<script, crawler, hook, crawls, result, data, printed, output, exc,
                   attempts, hookRet, markdown, stdout>>

\* llm1.py: the banner, the strategy and the run configuration.
ConfigureLlm ==
    /\ pc = "start"
    /\ script = "llm1"
    /\ output' = <<Segment("banner", <<>>), Segment("initialized", <<>>)>>
    /\ pc' = "configured"
    /\ UNCHANGED <<script, crawler, hook, crawls, result, data, printed, exc,
                   attempts, hookRet, markdown, stdout>>

\* config.py: BrowserConfig and CrawlerRunConfig in main(); markdown.py: the
\* module-level generator and CrawlerRunConfig.
ConfigurePlain ==
    /\ pc = "start"
    /\ script \in PlainScripts
    /\ pc' = "configured"
    /\ UNCHANGED <<script, crawler, hook, crawls, result, data, printed, output, exc,
                   attempts, hookRet, markdown, stdout>>

\* async with AsyncWebCrawler(...) as crawler: __aenter__ opens the browser,
\* or raises, and then the block and __aexit__ are skipped.
Enter ==
    /\ pc = "configured"
    /\ \/ /\ crawler' = "open"
          /\ pc' = "entered"
          /\ exc' = exc
       \/ /\ crawler' = crawler
          /\ pc' = "raised"
          /\ exc' = "LaunchError"
    /\ UNCHANGED <<script, hook, crawls, result, data, printed, output,
                   attempts, hookRet, markdown, stdout>>

\* main1.py: crawler.crawler_strategy.set_hook("after_goto", after_goto)
SetHook ==
    /\ pc = "entered"
    /\ script = "main1"
    /\ hook' = "after_goto"
    /\ pc' = "hooked"
    /\ UNCHANGED <<script, crawler, crawls, result, data, printed, output, exc,
                   attempts, hookRet, markdown, stdout>>

\* How a crawl with an extraction strategy ends: it returns a result whose
\* extracted_content is a payload or None, or returns None, or raises.
CrawlEnds ==
    \/ /\ \E text \in Payloads : result' = Result(Content(text))
       /\ pc' = "fetched"
       /\ exc' = exc
    \/ /\ result' \in {NoResult, Result(NoContent)}
       /\ pc' = "fetched"
       /\ exc' = exc
    \/ /\ exc' = "CrawlError"
       /\ pc' = "unwinding"
       /\ result' = result

\* main.py, llm1.py: result = await crawler.arun(...), a crawl with nothing
\* of the script's run inside it.
Arun ==
    /\ pc = "entered"
    /\ script \in {"main", "llm1"}
    /\ crawls' = crawls + 1
    /\ CrawlEnds
    /\ UNCHANGED <<script, crawler, hook, data, printed, output,
                   attempts, hookRet, markdown, stdout>>

\* config.py, markdown.py: result = await crawler.arun(...); the result, if
\* any, carries its markdown or None.
ArunPlain ==
    /\ pc = "entered"
    /\ script \in PlainScripts
    /\ crawls' = crawls + 1
    /\ \/ /\ result' = Result(NoContent)
          /\ markdown' \in {"None", "text"}
          /\ pc' = "fetched"
          /\ exc' = exc
       \/ /\ result' = NoResult
          /\ markdown' = markdown
          /\ pc' = "fetched"
          /\ exc' = exc
       \/ /\ exc' = "CrawlError"
          /\ pc' = "unwinding"
          /\ UNCHANGED <<result, markdown>>
    /\ UNCHANGED <<script, crawler, hook, data, printed, output,
                   attempts, hookRet, stdout>>

\* main1.py, main2.py: result = await crawler.arun(...) up to the page being
\* there.  In main1.py the crawl then calls the registered after_goto, which
\* prints that the page was loaded and comes to its first await; in main2.py
\* it goes on to the injected script.  Or the navigation raises.
Goto ==
    /\ \/ pc = "hooked" /\ script = "main1"
       \/ pc = "entered" /\ script = "main2"
    /\ crawls' = crawls + 1
    /\ \/ /\ pc' = IF script = "main1" THEN "hook" ELSE "js"
          /\ stdout' = IF script = "main1"
                       THEN Append(stdout, "hook_loaded") ELSE stdout
          /\ exc' = exc
       \/ /\ pc' = "unwinding"
          /\ exc' = "CrawlError"
          /\ stdout' = stdout
    /\ UNCHANGED <<script, crawler, hook, result, data, printed, output,
                   attempts, hookRet, markdown>>

\* What an await of after_goto raises when it does not succeed: an error of
\* the interaction (Playwright's TimeoutError stands for the Exceptions), or
\* asyncio.CancelledError when the task is cancelled at the await (it stands
\* for the exceptions that are no Exception: KeyboardInterrupt, SystemExit).
StepRaises == {"TimeoutError", "CancelledError"}

\* "except Exception" catches it.
IsException(kind) == kind # "CancelledError"

\* main1.py, a handler that prints and raises again.
OnHookError_Reraise(out) ==
    [stdout |-> Append(out, "hook_error"), ret |-> "none", exc |-> "TimeoutError"]

\* main1.py: "except Exception as e" in after_goto prints the error; the
\* hook then returns the page.
OnHookError(out) ==
    [stdout |-> Append(out, "hook_error"), ret |-> "page", exc |-> "none"]

\* main1.py: the next await of after_goto's try block succeeds or raises.
\* After the fifth the hook prints that the search completed and returns the
\* page; an Exception goes to the handler; what is no Exception passes the
\* handler: nothing is printed and nothing returned.  An exception out of the
\* hook ends the crawl.
HookStep ==
    /\ pc = "hook"
    /\ LET step == HookSteps[Len(attempts) + 1]
           caught == OnHookError(stdout)
       IN  \/ /\ attempts' = Append(attempts, Attempt(step, TRUE))
              /\ IF Len(attempts) + 1 = Len(HookSteps)
                 THEN /\ stdout' = Append(stdout, "hook_completed")
                      /\ hookRet' = "page"
                      /\ pc' = "hook_done"
                 ELSE /\ pc' = "hook"
                      /\ UNCHANGED <<stdout, hookRet>>
              /\ exc' = exc
           \/ /\ attempts' = Append(attempts, Attempt(step, FALSE))
              /\ \E kind \in StepRaises :
                    IF IsException(kind)
                    THEN /\ stdout' = caught.stdout
                         /\ hookRet' = caught.ret
                         /\ exc' = caught.exc
                         /\ pc' = IF caught.exc = "none"
                                  THEN "hook_done" ELSE "unwinding"
                    ELSE /\ exc' = kind
                         /\ pc' = "unwinding"
                         /\ UNCHANGED <<stdout, hookRet>>
    /\ UNCHANGED <<script, crawler, hook, crawls, result, data, printed, output,
                   markdown>>

\* main2.py: js_code runs in the page: it sets the search box and clicks the
\* button, or throws where querySelector finds none; the crawl goes on to
\* wait_for either way.
RunJs ==
    /\ pc = "js"
    /\ \E ok \in BOOLEAN : attempts' = Append(attempts, Attempt("js_search", ok))
    /\ pc' = "waiting"
    /\ UNCHANGED <<script, crawler, hook, crawls, result, data, printed, output, exc,
                   hookRet, markdown, stdout>>

\* main2.py: wait_for='css:[data-component-type="s-search-result"]', "wait
\* until product results are loaded": an element matching the selector is
\* there, whether or not the injected script came to its click, and the
\* crawl goes on; or the wait runs out and the crawl ends without an
\* extraction.
WaitFor ==
    /\ pc = "waiting"
    /\ \/ /\ attempts' = Append(attempts, Attempt("wait_for", TRUE))
          /\ pc' = "extracting"
          /\ UNCHANGED <<result, exc>>
       \/ /\ attempts' = Append(attempts, Attempt("wait_for", FALSE))
          /\ \/ /\ result' \in {NoResult, Result(NoContent)}
                /\ pc' = "fetched"
                /\ exc' = exc
             \/ /\ exc' = "CrawlError"
                /\ pc' = "unwinding"
                /\ result' = result
    /\ UNCHANGED <<script, crawler, hook, crawls, data, printed, output,
                   hookRet, markdown, stdout>>

\* main1.py, main2.py: the rest of crawler.arun: the hook returned (main1.py)
\* or the wait was met (main2.py), and the crawl extracts from the page as
\* it is.
Extract ==
    /\ \/ pc = "hook_done" /\ script = "main1"
       \/ pc = "extracting" /\ script = "main2"
    /\ CrawlEnds
    /\ UNCHANGED <<script, crawler, hook, crawls, data, printed, output,
                   attempts, hookRet, markdown, stdout>>

\* main*.py: "if result and result.extracted_content:" fails, nothing is
\* parsed or printed.
ProcessNothing ==
    /\ pc = "fetched"
    /\ script \in CssScripts
    /\ result.none \/ result.content.none \/ result.content.chars = <<>>
    /\ pc' = "processed"
    /\ UNCHANGED <<script, crawler, hook, crawls, result, data, printed, output, exc,
                   attempts, hookRet, markdown, stdout>>

\* main*.py: products = json.loads(result.extracted_content), then the loop
\* that prints each product.  json.loads raises JSONDecodeError, the for
\* statement TypeError on a null or a boolean, the loop body as PrintProduct.
ProcessProducts ==
    /\ pc = "fetched"
    /\ script \in CssScripts
    /\ ~result.none /\ ~result.content.none /\ result.content.chars # <<>>
    /\ LET parsed == json_loads(result.content.chars)
           loop == PrintLoop(Elements(parsed.val), 1, <<>>)
       IN  IF ~parsed.ok
           THEN /\ exc' = "JSONDecodeError"
                /\ pc' = "unwinding"
                /\ UNCHANGED <<data, printed>>
           ELSE IF ~Iterable(parsed.val)
           THEN /\ exc' = "TypeError"
                /\ pc' = "unwinding"
                /\ data' = [set |-> TRUE, val |-> parsed.val]
                /\ printed' = printed
           ELSE /\ exc' = loop.exc
                /\ pc' = IF loop.exc = "none" THEN "processed" ELSE "unwinding"
                /\ data' = [set |-> TRUE, val |-> parsed.val]
                /\ printed' = loop.printed
    /\ UNCHANGED <<script, crawler, hook, crawls, result, output,
                   attempts, hookRet, markdown, stdout>>

\* llm1.py, a reraising handler: what "except json.JSONDecodeError" would do
\* if it let the error go on.
OnDecodeError_Reraise(written) == [output |-> written, exc |-> "JSONDecodeError"]

\* llm1.py: "except json.JSONDecodeError as e" writes the parsing-error
\* notice and the advice to check manually; the error ends there.
OnDecodeError(written) ==
    [output |-> written \o << Segment("parsing_error", <<>>),
                              Segment("check_manually", <<>>) >>,
     exc |-> "none"]

\* llm1.py: the raw section, then the parsed section or the error notice.
\* "result.extracted_content + '\n'" raises AttributeError on a None result
\* and TypeError on a None extracted_content, after the heading was written.
ProcessLlm ==
    /\ pc = "fetched"
    /\ script = "llm1"
    /\ LET heading == Append(output, Segment("raw_heading", <<>>))
           text == result.content.chars
           raw == Append(heading, Segment("raw", text \o <<"\n">>))
           parsed == json_loads(text)
       IN  IF result.none \/ result.content.none
           THEN /\ output' = heading
                /\ exc' = IF result.none THEN "AttributeError" ELSE "TypeError"
                /\ pc' = "unwinding"
                /\ data' = data
           ELSE IF text = <<>>
           THEN /\ output' = raw
                /\ pc' = "processed"
                /\ UNCHANGED <<exc, data>>
           ELSE IF parsed.ok
           THEN /\ output' = raw \o
                      << Segment("parsed_heading", <<>>),
                         Segment("parsed", json_dumps(parsed.val) \o <<"\n">>) >>
                /\ data' = [set |-> TRUE, val |-> parsed.val]
                /\ pc' = "processed"
                /\ exc' = exc
           ELSE /\ output' = OnDecodeError(raw).output
                /\ exc' = OnDecodeError(raw).exc
                /\ pc' = IF OnDecodeError(raw).exc = "none"
                         THEN "processed" ELSE "unwinding"
                /\ data' = data
    /\ UNCHANGED <<script, crawler, hook, crawls, result, printed,
                   attempts, hookRet, markdown, stdout>>

\* config.py: print(result.markdown); markdown.py: the lengths of
\* result.markdown.raw_markdown and .fit_markdown.  A None result has no
\* markdown (AttributeError), a None markdown prints as None in config.py
\* and has no raw_markdown in markdown.py (AttributeError).
ProcessPlain ==
    /\ pc = "fetched"
    /\ script \in PlainScripts
    /\ IF result.none \/ (script = "markdown" /\ markdown = "None")
       THEN /\ exc' = "AttributeError"
            /\ pc' = "unwinding"
            /\ stdout' = stdout
       ELSE /\ stdout' = IF script = "config"
                         THEN Append(stdout, "markdown")
                         ELSE stdout \o <<"raw_length", "fit_length">>
            /\ pc' = "processed"
            /\ exc' = exc
    /\ UNCHANGED <<script, crawler, hook, crawls, result, data, printed, output,
                   attempts, hookRet, markdown>>

\* Leaving a block the way a bare "await crawler.close()" after it would:
\* the crawler is closed on the way out only when nothing was raised.
Exit_CloseAfterBlock ==
    /\ pc \in {"processed", "unwinding"}
    /\ crawler' = IF exc = "none" THEN "closed" ELSE crawler
    /\ pc' = IF exc = "none" THEN "exited" ELSE "raised"
    /\ UNCHANGED <<script, hook, crawls, result, data, printed, output, exc,
                   attempts, hookRet, markdown, stdout>>

\* __aexit__ at the end of the with block, or as an exception leaves it:
\* the crawler is closed, the exception goes on.
Exit ==
    /\ pc \in {"processed", "unwinding"}
    /\ crawler' = "closed"
    /\ pc' = IF exc = "none" THEN "exited" ELSE "raised"
    /\ UNCHANGED <<script, hook, crawls, result, data, printed, output, exc,
                   attempts, hookRet, markdown, stdout>>

\* The function returns: llm1.py output.getvalue(), the others None.
Return ==
    /\ pc = "exited"
    /\ pc' = "returned"
    /\ UNCHANGED <<script, crawler, hook, crawls, result, data, printed, output, exc,
                   attempts, hookRet, markdown, stdout>>

Next ==
    \/ ConfigureCss
    \/ ConfigureLlm
    \/ ConfigurePlain
    \/ Enter
    \/ SetHook
    \/ Arun
    \/ ArunPlain
    \/ Goto
    \/ HookStep
    \/ RunJs
    \/ WaitFor
    \/ Extract
    \/ ProcessNothing
    \/ ProcessProducts
    \/ ProcessLlm
    \/ ProcessPlain
    \/ Exit
    \/ Return

Spec == Init /\ [][Next]_vars

\* ------------------------------------------------------------- properties

\* The schema invariants: field names unique, and a field of type attribute
\* names its attribute.
WellFormed(schema) ==
    /\ \A m, n \in 1..Len(schema.fields) :
          schema.fields[m].name = schema.fields[n].name => m = n
    /\ \A n \in 1..Len(schema.fields) :
          schema.fields[n].type = "attribute" =>
              "attribute" \in schema.fields[n].keys /\ schema.fields[n].attribute # ""

\* C2: a malformed schema is reported as a configuration error before
\* extraction begins and no Record is produced for that job: a script whose
\* schema is malformed never calls the crawl with it and prints no product.
\* (The further conjunct, that the report does not end the process, needs a
\* report to speak of.)
C2_MalformedSchemaReported ==
    (script \in CssScripts /\ ~WellFormed(SchemaOf(script))) =>
        (crawls = 0 /\ printed = <<>>)

\* llm1.py got a str payload that json.loads refuses, and is past the
\* post-processing.
Unparseable ==
    /\ script = "llm1"
    /\ pc \in {"processed", "unwinding", "exited", "raised", "returned"}
    /\ ~result.none /\ ~result.content.none
    /\ ~json_loads(result.content.chars).ok

\* The output holds the raw payload and, after it, the parsing-error notice.
RawThenNotice ==
    \E m, n \in 1..Len(output) :
        /\ m < n
        /\ output[m] = Segment("raw", result.content.chars \o <<"\n">>)
        /\ output[n].kind = "parsing_error"

\* C7 as stated: whenever the payload cannot be parsed as JSON, no exception
\* is on its way out and the output holds the raw payload followed by the
\* parsing-error notice.
C7_UnparseableIsReported == Unparseable => (exc = "none" /\ RawThenNotice)

\* C7, amended: a non-empty payload that cannot be parsed as JSON is
\* reported: the output holds the raw payload followed by the parsing-error
\* notice and no exception is on its way out.  (An empty payload is written
\* raw and skipped without a notice.)
C7_NonEmptyUnparseableIsReported ==
    (Unparseable /\ result.content.chars # <<>>) => (exc = "none" /\ RawThenNotice)

\* llm1.py returned after an unterminated array came back.
C7_Witness ==
    /\ Unparseable
    /\ pc = "returned"
    /\ result.content.chars = <<"[", "\"", "a">>
    /\ RawThenNotice

\* A value of the types a Record holds: a str, a boolean, a null or a list
\* of str.
IsFieldValue(v) ==
    \/ v.t \in {"str", "true", "false", "null"}
    \/ v.t = "list" /\ \A n \in 1..Len(v.items) : v.items[n].t = "str"
IsResultSet(v) ==
    /\ v.t = "list"
    /\ \A n \in 1..Len(v.items) :
          /\ v.items[n].t = "dict"
          /\ \A k \in 1..Len(v.items[n].items) : IsFieldValue(v.items[n].items[k])

\* C8: a ResultSet serialized to JSON and parsed back is the same sequence
\* of Records, field for field: parsing the text llm1.py wrote with
\* json.dumps gives the data it was written from.
C8_RoundTrip ==
    (script = "llm1" /\ data.set /\ IsResultSet(data.val)) =>
        \E n \in 1..Len(output) :
            /\ output[n].kind = "parsed"
            /\ json_loads(output[n].text) = [ok |-> TRUE, val |-> data.val]

\* Two records were written and parse back in their order: one with a str
\* holding a quote, a true and a list whose str holds a new line and a
\* backslash, then one with a null, a false and an empty list.
C8_Witness ==
    /\ script = "llm1"
    /\ data.set
    /\ data.val =
          JList(<< JDict(<<K_asin, K_sponsored, K_delivery_info>>,
                         << JStr(<<"a", "\"">>), JTrue,
                            JList(<<JStr(<<"a">>), JStr(<<"\n", "\\">>)>>) >>),
                   JDict(<<K_asin, K_sponsored, K_delivery_info>>,
                         << JNull, JFalse, JList(<<>>) >>) >>)
    /\ \E n \in 1..Len(output) : output[n].kind = "parsed"
\* C11.  In main1.py and main2.py the product records are extracted only
\* after the search was submitted and an element matching
\* [data-component-type="s-search-result"] appeared: whenever the crawl of a
\* dynamic-search script has returned a result with extracted content, the
\* search was submitted and the results were seen before.
C11_ExtractionAfterResults ==
    ( /\ script \in DynamicScripts
      /\ pc = "fetched"
      /\ ~result.none
      /\ ~result.content.none )
    => (Submitted /\ ResultsLoaded)

\* The crawl was started, and its call has come back or raised.
CrawlOver ==
    crawls > 0 /\ pc \in {"fetched", "processed", "unwinding", "exited", "returned", "raised"}

\* C12.  In every script the crawl runs only while the crawler is open: the
\* call is made on an open crawler, which stays open until the call is over
\* and through the post-processing; and once the block is left, by its end
\* or by an exception of the crawl or of the post-processing, the crawler is
\* closed, so none is left open and none is used after it was closed.
C12_CrawlerOpenInBlockClosedAfter ==
    /\ [][crawls' # crawls => (crawler = "open" /\ crawler' = "open")]_vars
    /\ []( /\ (crawls > 0 /\ ~CrawlOver) => crawler = "open"
           /\ pc \in {"fetched", "processed", "unwinding"} => crawler = "open"
           /\ pc \in {"exited", "returned", "raised"} => crawler # "open"
           /\ (crawls > 0 /\ pc \in {"exited", "returned", "raised"})
                  => crawler = "closed"
           /\ crawler = "closed" => pc \in {"exited", "returned", "raised"} )

\* A script whose json.loads raised on the payload has left the block and
\* its crawler is closed.
C12_Witness ==
    /\ pc = "raised"
    /\ exc = "JSONDecodeError"
    /\ crawls = 1
    /\ crawler = "closed"

\* A step of the search interaction failed.
HookFailed == \E n \in 1..Len(attempts) : ~attempts[n].ok

\* The message is among those printed.
Said(msg) == \E n \in 1..Len(stdout) : stdout[n] = msg

\* C13.  In main1.py no failure of a search step leaves after_goto: whenever
\* a step failed, it is the last one tried, the error message is printed,
\* the hook has returned the page and nothing raised by the step is on its
\* way; and "Search completed and results loaded!" is printed only when the
\* five steps succeeded in the order of the code.
C13_HookContainsFailure ==
    script = "main1" =>
        /\ exc \notin StepRaises
        /\ HookFailed =>
              /\ \A n \in 1..Len(attempts) : ~attempts[n].ok => n = Len(attempts)
              /\ pc # "hook"
              /\ Said("hook_error")
              /\ ~Said("hook_completed")
              /\ hookRet = "page"
        /\ Said("hook_completed") =>
              attempts = [n \in 1..Len(HookSteps) |-> Attempt(HookSteps[n], TRUE)]

\* C13, for the failures that are Exceptions.  In main1.py no Exception of a
\* search step leaves after_goto: when a step failed and the task was not
\* cancelled there, the failed step is the last one tried, the error message
\* is printed and the hook has returned the page; a step that failed is the
\* last one tried in every case, and "Search completed and results loaded!"
\* is printed only when the five steps succeeded in the order of the code.
C13_HookContainsExceptions ==
    script = "main1" =>
        /\ exc # "TimeoutError"
        /\ \A n \in 1..Len(attempts) : ~attempts[n].ok => n = Len(attempts)
        /\ HookFailed => (pc # "hook" /\ ~Said("hook_completed"))
        /\ (HookFailed /\ exc # "CancelledError") =>
              /\ Said("hook_error")
              /\ hookRet = "page"
        /\ (HookFailed /\ exc = "CancelledError") =>
              /\ ~Said("hook_error")
              /\ hookRet = "none"
        /\ Said("hook_completed") =>
              attempts = [n \in 1..Len(HookSteps) |-> Attempt(HookSteps[n], TRUE)]

\* The third step failed, and the script went on to its end.
C13_Witness ==
    /\ script = "main1"
    /\ Len(attempts) = 3
    /\ ~attempts[3].ok
    /\ hookRet = "page"
    /\ pc = "returned"


====
